---- MODULE Spec2Model ----
(***************************************************************************)
(* State-machine model of the Hobgoblin firmware (Firmware/src/main.cpp):  *)
(* the pulse-train engine, the analog sampling pipeline and the            *)
(* enable/disable coordinator, together with the parts of the pico-sdk     *)
(* alarm pool that the firmware's behaviour rests on.                      *)
(*                                                                         *)
(* Time is discrete.  Every pulse alarm carries the time left until it is  *)
(* due ("rem"); Tick advances time by one unit and is enabled only when    *)
(* no alarm is due, so a due alarm is always served before time moves on   *)
(* and before the main loop takes its next step (the timer interrupt       *)
(* preempts the main loop).  The analog reporting timer is untimed: once   *)
(* its initial delay has elapsed it may fire at any moment while it is     *)
(* armed.  The host makes a bounded number of pulse-train writes and of    *)
(* changes of the events-enabled flag.                                     *)
(***************************************************************************)
EXTENDS Integers, Sequences, FiniteSets, TLC

VARIABLES
    events_enabled,      \* HarpCore::events_enabled(), host controlled
    events_active,       \* main.cpp:35
    gpio_irq,            \* IO_IRQ_BANK0 enabled (enable_gpio)
    pc,                  \* position of the main loop: "run", "start" inside write_start_pulse_train,
                         \* or "fault" once the processor has trapped
    app_regs,            \* main.cpp:64-76 (the fields the modelled code touches)
    pulse_train_timers,  \* main.cpp:47
    adc_timer,           \* main.cpp:53
    adc_vals,            \* main.cpp:51
    adc_hw,              \* converter and the two transfer channels (hardware state)
    fresh,               \* cells of adc_vals written by the sample channel since the last start
    alarms,              \* the default alarm pool of the pico-sdk
    gpio_out,            \* digital output pins that are high (bit numbers relative to DO0_PIN)
    pwm_hw,              \* the PWM slice: enable bit, TOP and the channel's compare level
    writes,              \* number of pulse-train writes the host has made
    flips,               \* number of changes of the events-enabled flag
    emitted,             \* replies sent by the most recent step
    log,                 \* per slot: notifications of the current train while it is undisturbed
    trainOn,             \* per slot: a train was armed; it was not cancelled and has not raised train-stopped
    oldActive,           \* per slot: a start-write found a live train whose train-stopped is still owed
    clean,               \* per slot: the last start-write was valid and nothing interfered since
    asked,               \* per slot: the count word of the start-write that armed the slot
    orphans              \* pending one-shot alarms (slot, id) whose periodic timer was cancelled

coord == <<events_enabled, events_active, gpio_irq>>
adcVars == <<adc_timer, adc_vals, adc_hw, fresh>>
budget == <<writes, flips>>
trainHist == <<log, trainOn, oldActive, clean, asked, orphans>>

vars == <<coord, pc, app_regs, pulse_train_timers, adcVars, alarms, gpio_out, pwm_hw, budget,
          emitted, trainHist>>

-----------------------------------------------------------------------------
(* Bounds of the model *)

\* the slots of the masks 2^i - 1, i in 0..MaxMask, of the 256 slots are exercised
MaxMask == 2
\* pulse widths 0..MaxWidth time units
MaxWidth == 1
\* pulse periods 1..MaxPeriod time units
MaxPeriod == 2
\* positive pulse counts 1..MaxCount are written by the host
MaxCount == 2
\* width in bits of the count word (32 in the source)
CountBits == 3
\* the host makes at most MaxWrites writes to the pulse-train registers
MaxWrites == 2
\* the host changes the events-enabled flag at most MaxFlips times
MaxFlips == 3
\* conversion results 1..MaxSample are produced by the converter
MaxSample == 1
\* the host writes the PWM frequencies 0 and 10^i Hz, i in 0..MaxFreqExp
MaxFreqExp == 3
\* the host writes the duty cycles 50 * i percent, i in 0..MaxDutyStep
MaxDutyStep == 3

\* main.cpp:54-55
adc_period_us == 4000
adc_callback_delay_us == 80000

\* masks 0x00, 0x01, 0x03, ...: every two non-zero masks share a bit
Masks == {2 ^ i - 1 : i \in 0..MaxMask}
\* the masks the host starts trains on; slot 0 is also the slot a stop-write
\* targets before any start-write (start register as left by app_reset)
HostMasks == Masks \ {0}
Widths == 0..MaxWidth
Periods == 1..MaxPeriod
CountMod == 2 ^ CountBits
SignedMin == 2 ^ (CountBits - 1)
\* count words written by the host: zero, small positive numbers, the most negative word
CountWords == (0..MaxCount) \cup {SignedMin}
\* the count word read as a signed number
Signed(c) == IF c >= SignedMin THEN c - CountMod ELSE c
\* the log keeps a prefix of this length of a train's notifications
MaxLog == 2 * MaxCount + 2

-----------------------------------------------------------------------------
(* Helpers *)

\* the bits set in a byte
Bits(m) == {i \in 0..7 : (m \div (2 ^ i)) % 2 = 1}

\* An alarm is named by its kind, its slot and a positive serial number (the
\* sdk's alarm id; 0 means no alarm).  A new alarm gets the smallest serial
\* number not in use among the alarms of its kind and slot.
Group(pool, k, m) == {a \in pool : a.kind = k /\ a.slot = m}
FreshId(pool, k, m) ==
    CHOOSE i \in 1..(Cardinality(Group(pool, k, m)) + 1) :
        /\ \A a \in Group(pool, k, m) : a.id # i
        /\ \A j \in 1..(i - 1) : \E a \in Group(pool, k, m) : a.id = j

PulseAlarmsOf(pool, m) == Group(pool, "pulse", m)
RepeatingAlarmsOf(pool, m) == Group(pool, "repeating", m)
AdcAlarms(pool) == Group(pool, "adc", 0)

\* the pulse alarms that are due now
Due == {a \in alarms : a.kind # "adc" /\ a.rem = 0}

\* append to a slot's log while its train is undisturbed (keep), at most MaxLog entries
Logged(l, evs, keep) ==
    IF keep
    THEN SubSeq(l \o evs, 1, IF Len(l \o evs) > MaxLog THEN MaxLog ELSE Len(l \o evs))
    ELSE <<>>

\* a faulty cancellation that leaves the alarm armed (fault injection for C9)
CancelPoolLeaves(pool, m, t) == pool

\* cancel_repeating_timer (pico-sdk) on slot m's timer t: the pool after the
\* call, and its result
CancelPool(pool, m, t) ==
    {a \in pool : ~(a.kind = "repeating" /\ a.slot = m /\ a.id = t.alarm_id)}
CancelResult(pool, m, t) ==
    t.alarm_id # 0 /\ \E a \in RepeatingAlarmsOf(pool, m) : a.id = t.alarm_id

\* the pending one-shot alarms of slot m, as (slot, id) pairs
Pending(pool, m) == {<<m, a.id>> : a \in PulseAlarmsOf(pool, m)}

-----------------------------------------------------------------------------
(* Initial state: zero-initialised globals, app_reset and configure_gpio *)

Init ==
    /\ events_enabled = FALSE
    /\ events_active = FALSE
    /\ gpio_irq = FALSE
    /\ pc = "run"
    /\ app_regs = [start_pulse_train |-> <<0, 0, 0, 0>>, stop_pulse_train |-> 0,
                   do_clear |-> 0, analog_data |-> <<0, 0, 0>>,
                   pwm_config |-> <<1000, 50>>, pwm_stop |-> 0]
    /\ pulse_train_timers = [m \in Masks |->
            [alarm_id |-> 0, delay_us |-> 0, output_mask |-> 0,
             pulse_width_us |-> 0, pulse_period_us |-> 0, pulse_count |-> 0]]
    /\ adc_timer = [alarm_id |-> 0, delay_us |-> 0]
    /\ adc_vals = <<0, 0, 0>>
    /\ adc_hw = [running |-> FALSE, ctrl_busy |-> FALSE, sample_busy |-> FALSE, widx |-> 1]
    /\ fresh = {}
    /\ alarms = {}
    /\ gpio_out = {}
    /\ pwm_hw = [enabled |-> FALSE, top |-> 65535, cc |-> 0]
    /\ writes = 0
    /\ flips = 0
    /\ emitted = <<>>
    /\ log = [m \in Masks |-> <<>>]
    /\ trainOn = [m \in Masks |-> FALSE]
    /\ oldActive = [m \in Masks |-> FALSE]
    /\ clean = [m \in Masks |-> FALSE]
    /\ asked = [m \in Masks |-> 0]
    /\ orphans = {}

-----------------------------------------------------------------------------
(* Pulse-train engine *)

\* a start-write the pulse-train contract covers: count > 0 and 0 < width < period
ValidTrain(w, p, n) == Signed(n) > 0 /\ 0 < w /\ w < p

\* write_start_pulse_train, lines 174-182: the payload is copied into the
\* register and the slot's parameters are overwritten.
WriteStartCopy(m, w, p, n) ==
    /\ pc = "run"
    /\ Due = {}
    /\ writes < MaxWrites
    /\ writes' = writes + 1
    /\ app_regs' = [app_regs EXCEPT !.start_pulse_train = <<m, w, p, n>>]
    /\ pulse_train_timers' = [pulse_train_timers EXCEPT
            ![m].output_mask = m,
            ![m].pulse_width_us = w,
            ![m].pulse_period_us = p,
            ![m].pulse_count = n]
    /\ pc' = "start"
    /\ emitted' = <<>>
    /\ clean' = [clean EXCEPT ![m] = ValidTrain(w, p, n)]
    /\ log' = [log EXCEPT ![m] = <<>>]
    /\ UNCHANGED <<pwm_hw, coord, adcVars, alarms, gpio_out, flips, trainOn, oldActive, asked,
                   orphans>>

\* write_start_pulse_train, lines 185-193: cancel the slot's timer, raise
\* train-stopped if a timer was cancelled, acknowledge, arm the new timer.
\* add_repeating_timer_us turns a delay of 0 into 1 us: the first callback
\* is due at once on the model's time scale.
WriteStartArm ==
    /\ pc = "start"
    /\ Due = {}
    /\ LET m == app_regs.start_pulse_train[1] % 256
           t == pulse_train_timers[m]
           rc == CancelResult(alarms, m, t)
           pool == CancelPool(alarms, m, t)
           id == FreshId(pool, "repeating", m)
       IN /\ alarms' = pool \cup {[id |-> id, kind |-> "repeating", slot |-> m, rem |-> 0]}
          /\ pulse_train_timers' = [pulse_train_timers EXCEPT
                  ![m].alarm_id = id, ![m].delay_us = 1]
          /\ app_regs' = IF rc THEN [app_regs EXCEPT !.stop_pulse_train = m] ELSE app_regs
          /\ emitted' = (IF rc THEN <<(<<"stopped", m>>)>> ELSE <<>>) \o <<(<<"write", 5>>)>>
          /\ log' = [log EXCEPT ![m] = <<>>]
          /\ oldActive' = [oldActive EXCEPT ![m] = trainOn[m] /\ ~rc]
          /\ trainOn' = [trainOn EXCEPT ![m] = TRUE]
          /\ asked' = [asked EXCEPT ![m] = app_regs.start_pulse_train[4]]
          /\ orphans' = IF rc THEN orphans \cup Pending(alarms, m) ELSE orphans
    /\ pc' = "run"
    /\ UNCHANGED <<pwm_hw, coord, adcVars, gpio_out, budget, clean>>

\* pulse_train_callback, run by the sdk's repeating_timer_callback for alarm a:
\* when the callback returns false the sdk clears the timer's alarm_id and
\* drops the alarm, otherwise the alarm is due again |delay_us| later.
PulseTrainCallback(a) ==
    /\ pc # "fault"
    /\ a \in Due
    /\ a.kind = "repeating"
    /\ LET m == a.slot
           t == pulse_train_timers[m]
           dec == t.pulse_count > 0
           cnt == IF dec THEN (t.pulse_count - 1) % CountMod ELSE t.pulse_count
           delay == IF dec /\ cnt = 0 THEN 0 ELSE -t.pulse_period_us
           id == FreshId(alarms, "pulse", m)
           again == delay # 0
       IN /\ pulse_train_timers' = [pulse_train_timers EXCEPT
                  ![m].pulse_count = cnt,
                  ![m].delay_us = delay,
                  ![m].alarm_id = IF again THEN @ ELSE 0]
          /\ alarms' = ((alarms \ {a})
                          \cup (IF again THEN {[a EXCEPT !.rem = -delay]} ELSE {}))
                          \cup {[id |-> id, kind |-> "pulse", slot |-> m,
                                 rem |-> t.pulse_width_us]}
          /\ gpio_out' = gpio_out \cup Bits(t.output_mask)
          /\ emitted' = <<(<<"started", m>>)>>
          /\ log' = [log EXCEPT ![m] = Logged(@, <<"started">>, clean[m])]
    /\ UNCHANGED <<pwm_hw, coord, pc, app_regs, adcVars, budget, trainOn, oldActive, clean, asked,
                   orphans>>

\* pulse_train_callback when the end-pulse alarm's target time is already
\* reached at the moment it is armed (pulse width 0): an alarm pool that runs
\* a missed alarm's callback inside add_alarm_in_us (fire_if_past, pico-sdk 1.x)
\* runs pulse_callback at line 165, before the output is set and before
\* pulse-started is sent.  An alarm pool that queues the alarm instead is
\* PulseTrainCallback followed by PulseCallback.
PulseTrainCallbackMissed(a) ==
    /\ pc # "fault"
    /\ a \in Due
    /\ a.kind = "repeating"
    /\ pulse_train_timers[a.slot].pulse_width_us = 0
    /\ LET m == a.slot
           t == pulse_train_timers[m]
           dec == t.pulse_count > 0
           cnt == IF dec THEN (t.pulse_count - 1) % CountMod ELSE t.pulse_count
           delay == IF dec /\ cnt = 0 THEN 0 ELSE -t.pulse_period_us
           again == delay # 0
           last == delay = 0
       IN /\ pulse_train_timers' = [pulse_train_timers EXCEPT
                  ![m].pulse_count = cnt,
                  ![m].delay_us = delay,
                  ![m].alarm_id = IF again THEN @ ELSE 0]
          /\ alarms' = (alarms \ {a})
                          \cup (IF again THEN {[a EXCEPT !.rem = -delay]} ELSE {})
          /\ app_regs' = [app_regs EXCEPT
                  !.do_clear = t.output_mask,
                  !.stop_pulse_train = IF last THEN t.output_mask ELSE @]
          /\ gpio_out' = (gpio_out \ Bits(t.output_mask)) \cup Bits(t.output_mask)
          /\ emitted' = <<(<<"ended", m>>)>> \o (IF last THEN <<(<<"stopped", m>>)>> ELSE <<>>)
                           \o <<(<<"started", m>>)>>
          /\ log' = [log EXCEPT ![m] =
                  Logged(@, <<"ended">> \o (IF last THEN <<"stopped">> ELSE <<>>)
                               \o <<"started">>, clean[m])]
          /\ trainOn' = [trainOn EXCEPT ![m] = IF last THEN FALSE ELSE @]
          /\ oldActive' = [oldActive EXCEPT ![m] = IF last THEN FALSE ELSE @]
    /\ UNCHANGED <<pwm_hw, coord, pc, adcVars, budget, clean, asked, orphans>>

\* pulse_callback, the one-shot alarm that ends a pulse
PulseCallback(a) ==
    /\ pc # "fault"
    /\ a \in Due
    /\ a.kind = "pulse"
    /\ LET m == a.slot
           t == pulse_train_timers[m]
           last == t.delay_us = 0
       IN /\ app_regs' = [app_regs EXCEPT
                  !.do_clear = t.output_mask,
                  !.stop_pulse_train = IF last THEN t.output_mask ELSE @]
          /\ gpio_out' = gpio_out \ Bits(t.output_mask)
          /\ pulse_train_timers' = [pulse_train_timers EXCEPT
                  ![m].alarm_id = IF last THEN 0 ELSE @]
          /\ emitted' = <<(<<"ended", m>>)>> \o (IF last THEN <<(<<"stopped", m>>)>> ELSE <<>>)
          /\ log' = [log EXCEPT ![m] =
                  Logged(@, <<"ended">> \o (IF last THEN <<"stopped">> ELSE <<>>), clean[m])]
          /\ trainOn' = [trainOn EXCEPT ![m] = IF last THEN FALSE ELSE @]
          /\ oldActive' = [oldActive EXCEPT ![m] = IF last THEN FALSE ELSE @]
    /\ alarms' = alarms \ {a}
    /\ orphans' = orphans \ {<<a.slot, a.id>>}
    /\ UNCHANGED <<pwm_hw, coord, pc, adcVars, budget, clean, asked>>

\* write_stop_pulse_train with payload m: the slot is taken from the
\* start register, not from the payload.
WriteStop(m) ==
    /\ pc = "run"
    /\ Due = {}
    /\ writes < MaxWrites
    /\ writes' = writes + 1
    /\ LET target == app_regs.start_pulse_train[1] % 256
           t == pulse_train_timers[target]
           rc == CancelResult(alarms, target, t)
       IN /\ app_regs' = [app_regs EXCEPT !.stop_pulse_train = m]
          /\ alarms' = CancelPool(alarms, target, t)
          /\ pulse_train_timers' = [pulse_train_timers EXCEPT ![target].alarm_id = 0]
          /\ orphans' = IF rc THEN orphans \cup Pending(alarms, target) ELSE orphans
          /\ clean' = [x \in Masks |-> clean[x] /\ x # m /\ x # target]
          /\ log' = [x \in Masks |-> IF x # m /\ x # target THEN log[x] ELSE <<>>]
          /\ trainOn' = IF rc THEN [trainOn EXCEPT ![target] = FALSE] ELSE trainOn
          /\ oldActive' = IF rc THEN [oldActive EXCEPT ![target] = FALSE] ELSE oldActive
    /\ emitted' = <<(<<"write", 6>>)>>
    /\ UNCHANGED <<pwm_hw, coord, pc, adcVars, gpio_out, flips, asked>>

\* time advances by one unit when no alarm is due
Tick ==
    /\ Due = {}
    /\ \E a \in alarms : a.kind # "adc"
    /\ alarms' = {IF a.kind = "adc" THEN a ELSE [a EXCEPT !.rem = @ - 1] : a \in alarms}
    /\ emitted' = <<>>
    /\ UNCHANGED <<pwm_hw, coord, pc, app_regs, pulse_train_timers, adcVars, gpio_out, budget,
                   trainHist>>

-----------------------------------------------------------------------------
(* Continuous sampling pipeline *)

\* the 12-bit mask of adc_callback
Mask12(v) == v % 4096

\* the control channel writes the buffer's address into the sample channel's
\* write-address trigger register: the sample channel restarts at cell 0
DmaCtrlTransfer ==
    /\ adc_hw.ctrl_busy
    /\ adc_hw' = [adc_hw EXCEPT !.ctrl_busy = FALSE, !.sample_busy = TRUE, !.widx = 1]
    /\ emitted' = <<>>
    /\ UNCHANGED <<pwm_hw, coord, pc, app_regs, pulse_train_timers, adc_timer, adc_vals, fresh,
                   alarms, gpio_out, budget, trainHist>>

\* The reporting timer is armed with an initial delay of adc_callback_delay_us,
\* far longer than a round of the sample channel (adc_set_clkdiv(0)): an
\* alarm in its initial delay (rem = 1) becomes ready to fire (rem = 0) no
\* earlier than the end of the first round after it was armed, or once the
\* pipeline has been stopped (the time to the next start is arbitrary).
DelayElapsed(pool) ==
    {IF a.kind = "adc" THEN [a EXCEPT !.rem = 0] ELSE a : a \in pool}

\* the sample channel, paced by the converter, moves one conversion result
\* into the buffer; after count_of(adc_vals) transfers it chains to the
\* control channel
DmaSampleTransfer(v) ==
    /\ adc_hw.sample_busy
    /\ adc_hw.running
    /\ adc_vals' = [adc_vals EXCEPT ![adc_hw.widx] = v]
    /\ fresh' = fresh \cup {adc_hw.widx}
    /\ adc_hw' = IF adc_hw.widx = 3
                 THEN [adc_hw EXCEPT !.sample_busy = FALSE, !.ctrl_busy = TRUE]
                 ELSE [adc_hw EXCEPT !.widx = @ + 1]
    /\ alarms' = IF adc_hw.widx = 3 THEN DelayElapsed(alarms) ELSE alarms
    /\ emitted' = <<>>
    /\ UNCHANGED <<pwm_hw, coord, pc, app_regs, pulse_train_timers, adc_timer, gpio_out,
                   budget, trainHist>>

\* a faulty callback that does not look at the events-enabled flag (fault
\* injection for C7)
AdcCallbackUnguarded(a) ==
    /\ pc # "fault"
    /\ a \in AdcAlarms(alarms)
    /\ a.rem = 0
    /\ adc_timer' = [adc_timer EXCEPT !.delay_us = -adc_period_us]
    /\ app_regs' = [app_regs EXCEPT !.analog_data =
            <<Mask12(adc_vals[1]), Mask12(adc_vals[2]), Mask12(adc_vals[3])>>]
    /\ emitted' = <<(<<"analog", 7>>)>>
    /\ UNCHANGED <<pwm_hw, coord, pc, pulse_train_timers, adc_vals, adc_hw, fresh, alarms, gpio_out,
                   budget, trainHist>>

\* adc_callback, run by the sdk's repeating_timer_callback for alarm a
AdcCallback(a) ==
    /\ pc # "fault"
    /\ a \in AdcAlarms(alarms)
    /\ a.rem = 0
    /\ IF ~events_enabled
       THEN /\ alarms' = alarms \ {a}
            /\ adc_timer' = [adc_timer EXCEPT !.alarm_id = 0]
            /\ emitted' = <<>>
            /\ UNCHANGED app_regs
       ELSE /\ adc_timer' = [adc_timer EXCEPT !.delay_us = -adc_period_us]
            /\ app_regs' = [app_regs EXCEPT !.analog_data =
                    <<Mask12(adc_vals[1]), Mask12(adc_vals[2]), Mask12(adc_vals[3])>>]
            /\ emitted' = <<(<<"analog", 7>>)>>
            /\ UNCHANGED alarms
    /\ UNCHANGED <<pwm_hw, coord, pc, pulse_train_timers, adc_vals, adc_hw, fresh, gpio_out, budget,
                   trainHist>>

\* enable_adc_events: the hardware state, the alarm pool and the timer after the call
EnableAdcHw(hw) == [hw EXCEPT !.ctrl_busy = TRUE, !.running = TRUE]
EnableAdcPool(pool) ==
    pool \cup {[id |-> FreshId(pool, "adc", 0), kind |-> "adc", slot |-> 0, rem |-> 1]}
EnableAdcTimer(pool) ==
    [alarm_id |-> FreshId(pool, "adc", 0), delay_us |-> -adc_callback_delay_us]

\* disable_adc_events, lines 398-401, step by step with the transfer channels
\* running alongside.  A step state is [lpc, c, s, w, q]: the position in the
\* loop, control channel busy, sample channel busy, the sample channel's
\* write index, a sample transfer made since the last step of the loop.  The loop condition reads the control channel's busy flag
\* ("chkc"), then the sample channel's ("chks"); the body aborts the control
\* channel ("abc"), then the sample channel ("abs"); dma_channel_abort returns
\* with the channel idle.  Between two steps of the loop the control channel
\* may make its transfer, and the sample channel at most one (q: a conversion
\* takes far longer than a step of the loop; conversion is still running).
\* The values such transfers write are those of DmaSampleTransfer steps before
\* the tick.
AbortStep(x) ==
    (IF x.lpc = "chkc"
     THEN {[x EXCEPT !.lpc = IF x.c THEN "abc" ELSE "chks", !.q = FALSE]} ELSE {})
    \cup (IF x.lpc = "chks"
          THEN {[x EXCEPT !.lpc = IF x.s THEN "abc" ELSE "exit", !.q = FALSE]} ELSE {})
    \cup (IF x.lpc = "abc" THEN {[x EXCEPT !.lpc = "abs", !.c = FALSE, !.q = FALSE]} ELSE {})
    \cup (IF x.lpc = "abs" THEN {[x EXCEPT !.lpc = "chkc", !.s = FALSE, !.q = FALSE]} ELSE {})
    \cup (IF x.lpc # "exit" /\ x.c THEN {[x EXCEPT !.c = FALSE, !.s = TRUE, !.w = 1]} ELSE {})
    \cup (IF x.lpc # "exit" /\ x.s /\ ~x.q
          THEN {IF x.w = 3 THEN [x EXCEPT !.s = FALSE, !.c = TRUE, !.q = TRUE]
                ELSE [x EXCEPT !.w = @ + 1, !.q = TRUE]}
          ELSE {})

RECURSIVE AbortReach(_, _)
AbortReach(seen, frontier) ==
    IF frontier = {} THEN seen
    ELSE LET new == UNION {AbortStep(x) : x \in frontier} \ seen
         IN AbortReach(seen \cup new, new)

\* disable_adc_events: the hardware states the call can return with; after
\* the loop conversion is stopped and the FIFO drained.  The write index of
\* the idle sample channel is reloaded by the control channel's next transfer:
\* it is reset here.
DisableAdcHw(hw) ==
    LET start == [lpc |-> "chkc", c |-> hw.ctrl_busy, s |-> hw.sample_busy, w |-> hw.widx,
                  q |-> TRUE]
    IN {[running |-> FALSE, ctrl_busy |-> x.c, sample_busy |-> x.s, widx |-> 1] :
            x \in {y \in AbortReach({start}, {start}) : y.lpc = "exit"}}

-----------------------------------------------------------------------------
(* Enable/disable coordinator *)

\* cancel_pulse_timers: the pool and the slots after the loop
CancelAllPool(pool, timers) ==
    {a \in pool : ~(a.kind = "repeating" /\ a.id = timers[a.slot].alarm_id)}
CancelAllTimers(timers) == [m \in Masks |-> [timers[m] EXCEPT !.alarm_id = 0]]

\* the host sets or clears the events-enabled flag (HarpCore, main loop)
SetEventsEnabled(b) ==
    /\ pc = "run"
    /\ Due = {}
    /\ events_enabled # b
    /\ flips < MaxFlips
    /\ flips' = flips + 1
    /\ events_enabled' = b
    /\ emitted' = <<>>
    /\ clean' = IF b THEN clean ELSE [m \in Masks |-> FALSE]
    /\ log' = IF b THEN log ELSE [m \in Masks |-> <<>>]
    /\ UNCHANGED <<pwm_hw, events_active, gpio_irq, pc, app_regs, pulse_train_timers, adcVars,
                   alarms, gpio_out, writes, trainOn, oldActive, asked, orphans>>

\* a faulty coordinator that does not latch the Active state after enabling
\* (fault injection for C10)
UpdateAppStateNoLatch ==
    /\ pc = "run"
    /\ Due = {}
    /\ emitted' = <<>>
    /\ IF ~events_active /\ events_enabled
       THEN /\ gpio_irq' = TRUE
            /\ adc_hw' = EnableAdcHw(adc_hw)
            /\ alarms' = EnableAdcPool(alarms)
            /\ adc_timer' = EnableAdcTimer(alarms)
            /\ fresh' = {}
            /\ UNCHANGED <<events_active, pulse_train_timers, trainHist>>
       ELSE UNCHANGED <<events_active, gpio_irq, adc_hw, alarms, adc_timer, fresh,
                        pulse_train_timers, trainHist>>
    /\ UNCHANGED <<pwm_hw, events_enabled, pc, app_regs, adc_vals, gpio_out, budget>>

\* update_app_state, called on every update tick of the main loop
UpdateAppState ==
    /\ pc = "run"
    /\ Due = {}
    /\ emitted' = <<>>
    /\ IF ~events_active /\ events_enabled
       THEN /\ gpio_irq' = TRUE
            /\ adc_hw' = EnableAdcHw(adc_hw)
            /\ alarms' = EnableAdcPool(alarms)
            /\ adc_timer' = EnableAdcTimer(alarms)
            /\ fresh' = {}
            /\ events_active' = TRUE
            /\ UNCHANGED <<pulse_train_timers, trainHist>>
       ELSE IF events_active /\ ~events_enabled
       THEN /\ gpio_irq' = FALSE
            /\ adc_hw' \in DisableAdcHw(adc_hw)
            /\ alarms' = DelayElapsed(CancelAllPool(alarms, pulse_train_timers))
            /\ pulse_train_timers' = CancelAllTimers(pulse_train_timers)
            /\ events_active' = FALSE
            /\ orphans' = orphans \cup UNION {
                   IF CancelResult(alarms, m, pulse_train_timers[m])
                   THEN Pending(alarms, m) ELSE {} : m \in Masks}
            /\ trainOn' = [m \in Masks |->
                   trainOn[m] /\ ~CancelResult(alarms, m, pulse_train_timers[m])]
            /\ oldActive' = [m \in Masks |->
                   oldActive[m] /\ ~CancelResult(alarms, m, pulse_train_timers[m])]
            /\ clean' = [m \in Masks |-> FALSE]
            /\ log' = [m \in Masks |-> <<>>]
            /\ UNCHANGED <<adc_timer, fresh, asked>>
       ELSE UNCHANGED <<events_active, gpio_irq, adc_hw, alarms, adc_timer, fresh,
                        pulse_train_timers, trainHist>>
    /\ UNCHANGED <<pwm_hw, events_enabled, pc, app_regs, adc_vals, gpio_out, budget>>

-----------------------------------------------------------------------------

(* PWM output *)

\* a uint32_t is held as its two 16-bit halves
Half == 2 ^ 16
Halves(x) == [hi |-> (x \div Half) % Half, lo |-> x % Half]

\* frequencies and duty cycles the host writes
Frequencies == {0} \cup {10 ^ i : i \in 0..MaxFreqExp}
Duties == {50 * i : i \in 0..MaxDutyStep}

\* 1000000 / frequency in uint32_t.  Division by zero is undefined: the
\* divider returns a quotient of all ones or of zero, or the division traps.
Quotients(frequency) ==
    IF frequency = 0
    THEN {[trap |-> TRUE, q |-> Halves(0)],
          [trap |-> FALSE, q |-> [hi |-> Half - 1, lo |-> Half - 1]],
          [trap |-> FALSE, q |-> Halves(0)]}
    ELSE {[trap |-> FALSE, q |-> Halves(1000000 \div frequency)]}

\* the low half of (wrap * duty_percent) / 100 in uint32_t
Level(wrap, duty_percent) ==
    LET low == wrap.lo * duty_percent
        plo == low % Half
        phi == (wrap.hi * duty_percent + low \div Half) % Half
    IN (((phi % 100) * Half + plo) \div 100) % Half

\* write_pwm_config with payload (frequency, duty)
WritePwmConfig(frequency, duty) ==
    /\ pc = "run"
    /\ Due = {}
    /\ app_regs' = [app_regs EXCEPT !.pwm_config = <<frequency, duty>>]
    /\ \E div \in Quotients(frequency) :
          IF div.trap
          THEN /\ pc' = "fault"
               /\ emitted' = <<>>
               /\ UNCHANGED pwm_hw
          ELSE LET duty_percent == IF duty > 100 THEN 100 ELSE duty
                   wrap == div.q
               IN /\ pwm_hw' = [enabled |-> TRUE,
                                top |-> (wrap.lo - 1) % Half,
                                cc |-> Level(wrap, duty_percent)]
                  /\ emitted' = <<(<<"write", 8>>)>>
                  /\ UNCHANGED pc
    /\ UNCHANGED <<coord, pulse_train_timers, adcVars, alarms, gpio_out, budget, trainHist>>

\* write_pwm_stop with payload v
WritePwmStop(v) ==
    /\ pc = "run"
    /\ Due = {}
    /\ app_regs' = [app_regs EXCEPT !.pwm_stop = v]
    /\ pwm_hw' = [pwm_hw EXCEPT !.enabled = FALSE]
    /\ emitted' = <<(<<"write", 9>>)>>
    /\ UNCHANGED <<coord, pc, pulse_train_timers, adcVars, alarms, gpio_out, budget, trainHist>>

-----------------------------------------------------------------------------
(* Specifications *)

HostTrain ==
    \/ \E m \in HostMasks, w \in Widths, p \in Periods, n \in CountWords :
          WriteStartCopy(m, w, p, n)
    \/ WriteStartArm
    \/ \E m \in Masks : WriteStop(m)

HostPwm ==
    \/ \E f \in Frequencies, d \in Duties : WritePwmConfig(f, d)
    \/ \E v \in 0..1 : WritePwmStop(v)

TimerIrq ==
    \/ \E a \in alarms : PulseTrainCallback(a)
    \/ \E a \in alarms : PulseTrainCallbackMissed(a)
    \/ \E a \in alarms : PulseCallback(a)
    \/ Tick

Coordinator ==
    \/ \E b \in BOOLEAN : SetEventsEnabled(b)
    \/ UpdateAppState

Sampling ==
    \/ \E a \in alarms : AdcCallback(a)
    \/ DmaCtrlTransfer
    \/ \E v \in 1..MaxSample : DmaSampleTransfer(v)

\* the whole device
Next == HostTrain \/ HostPwm \/ TimerIrq \/ Coordinator \/ Sampling
Spec == Init /\ [][Next]_vars

\* The pulse-train engine and the coordinator.  The steps of the sampling
\* pipeline are left out: they change adc_timer, adc_vals, adc_hw, the analog
\* register and the analog alarms only, none of which a handler or callback of
\* the pulse-train engine reads.
TrainNext == HostTrain \/ TimerIrq \/ Coordinator
TrainSpec == Init /\ [][TrainNext]_vars

\* The sampling pipeline and the coordinator, with a host that writes no
\* pulse-train register: the slots stay idle.
AdcNext == Coordinator \/ Sampling
AdcSpec == Init /\ [][AdcNext]_vars

\* The PWM output and the coordinator, whose update tick is the rest of the
\* run loop: the host writes the two PWM registers only.
PwmNext == HostPwm \/ Coordinator
PwmSpec == Init /\ [][PwmNext]_vars

-----------------------------------------------------------------------------
(* Properties *)

InSeq(e, s) == \E i \in 1..Len(s) : s[i] = e
IsPrefix(s, t) == Len(s) <= Len(t) /\ \A i \in 1..Len(s) : s[i] = t[i]

\* the notifications of a train of n pulses
Expected(n) == [i \in 1..(2 * n + 1) |->
                   IF i = 2 * n + 1 THEN "stopped"
                   ELSE IF i % 2 = 1 THEN "started" ELSE "ended"]

\* slot m's start-write has been carried out to its end
Armed(m) == ~(pc = "start" /\ app_regs.start_pulse_train[1] % 256 = m)
\* no alarm of slot m is pending
Quiescent(m) == RepeatingAlarmsOf(alarms, m) = {} /\ PulseAlarmsOf(alarms, m) = {}

\* C1: after a start-write (m, w, p, n) with n > 0 and 0 < w < p that nothing
\* interferes with, the notifications for m are n times (pulse-started,
\* pulse-ended), then one train-stopped, and nothing further, whether the slot
\* was idle or running when the write arrived.
C1_ExactTrain ==
    \A m \in Masks :
        (clean[m] /\ Armed(m)) =>
            /\ IsPrefix(log[m], Expected(asked[m]))
            /\ Quiescent(m) => log[m] = Expected(asked[m])

\* C2: when a start-write finds a train that has not raised its train-stopped
\* yet, train-stopped is raised before any pulse-started of the new train.
C2_StopBeforeStart ==
    \A m \in Masks : ~(oldActive[m] /\ InSeq(<<"started", m>>, emitted))

\* C3: a stop-write with payload m leaves slot m without an armed timer and
\* leaves the timers of the other slots alone.
C3_StopByPayload ==
    [][\A m \in Masks : WriteStop(m) =>
          /\ RepeatingAlarmsOf(alarms', m) = {}
          /\ \A x \in Masks \ {m} : RepeatingAlarmsOf(alarms', x) = RepeatingAlarmsOf(alarms, x)]_vars

\* C4: a stop-write raises train-stopped exactly when a periodic timer was
\* armed for the targeted mask.
C4_StopNotifies ==
    [][\A m \in Masks : WriteStop(m) =>
          (InSeq(<<"stopped", m>>, emitted') <=> RepeatingAlarmsOf(alarms, m) # {})]_vars

\* C5: a train whose count word is zero or negative never gets the stop
\* sentinel from its periodic callback.
C5_NeverEnds ==
    \A m \in Masks :
        (trainOn[m] /\ Armed(m) /\ Signed(asked[m]) <= 0) => pulse_train_timers[m].delay_us # 0

\* C6: on the Active to Inactive transition every slot with an armed timer is
\* cancelled and raises one train-stopped.
C6_DisableNotifies ==
    [][(UpdateAppState /\ events_active /\ ~events_enabled) =>
          \A m \in Masks :
              /\ RepeatingAlarmsOf(alarms', m) = {}
              /\ RepeatingAlarmsOf(alarms, m) # {} => InSeq(<<"stopped", m>>, emitted')]_vars

\* C8: a one-shot alarm whose periodic timer was cancelled while its pulse was
\* high changes no register and raises no notification when it fires.
C8_OrphanSilent ==
    [][\A a \in alarms : (PulseCallback(a) /\ <<a.slot, a.id>> \in orphans) =>
          (app_regs' = app_regs /\ emitted' = <<>>)]_vars

\* C7: while the events-enabled flag is false no step raises the analog event
\* or changes the analog register field, and a reporting-timer callback that
\* fires then drops its alarm (do-not-repeat) and has no other effect.
C7_SilentWhileDisabled ==
    [][~events_enabled =>
          /\ app_regs'.analog_data = app_regs.analog_data
          /\ ~InSeq(<<"analog", 7>>, emitted')
          /\ \A a \in alarms : AdcCallback(a) =>
                /\ alarms' = alarms \ {a}
                /\ emitted' = <<>>
                /\ adc_timer'.delay_us = adc_timer.delay_us
                /\ UNCHANGED <<app_regs, adc_vals, adc_hw, coord, pulse_train_timers,
                               gpio_out>>]_vars

\* the reporting timer has reported samples and then cancelled itself because
\* the flag was found false
C7_Witness ==
    /\ ~events_enabled
    /\ events_active
    /\ AdcAlarms(alarms) = {}
    /\ adc_timer.alarm_id = 0
    /\ adc_timer.delay_us = -adc_period_us
    /\ app_regs.analog_data # <<0, 0, 0>>

\* C9: every slot has at most one armed periodic timer.
C9_OneTimerPerSlot ==
    \A m \in Masks : Cardinality(RepeatingAlarmsOf(alarms, m)) <= 1

\* a start-write has just replaced the armed timer of a running slot
C9_Witness ==
    \E m \in Masks :
        /\ emitted = <<(<<"stopped", m>>), (<<"write", 5>>)>>
        /\ Cardinality(RepeatingAlarmsOf(alarms, m)) = 1
        /\ PulseAlarmsOf(alarms, m) # {}

\* C10: the coordinator starts Inactive; a tick that finds the cached state
\* equal to the flag performs no subsystem action, a tick that finds them
\* different runs the matching transition once, and after every tick the
\* cached state equals the flag.
C10_Coordinator ==
    /\ ~events_active
    /\ [][UpdateAppState =>
            /\ events_active' = events_enabled
            /\ events_active = events_enabled =>
                  UNCHANGED <<gpio_irq, adc_hw, adc_timer, alarms, pulse_train_timers>>
            /\ (~events_active /\ events_enabled) =>
                  /\ gpio_irq'
                  /\ adc_hw'.running /\ adc_hw'.ctrl_busy
                  /\ Cardinality(alarms' \ alarms) = 1
                  /\ alarms \subseteq alarms'
                  /\ \A a \in alarms' \ alarms : a.kind = "adc" /\ a.id = adc_timer'.alarm_id
                  /\ UNCHANGED pulse_train_timers
            /\ (events_active /\ ~events_enabled) =>
                  /\ ~gpio_irq'
                  /\ ~adc_hw'.running
                  /\ \A m \in Masks : RepeatingAlarmsOf(alarms', m) = {}
                  /\ \A m \in Masks : pulse_train_timers'[m].alarm_id = 0
                  /\ AdcAlarms(alarms') = AdcAlarms(DelayElapsed(alarms))
                  /\ \A m \in Masks : PulseAlarmsOf(alarms', m) = PulseAlarmsOf(alarms, m)
                  /\ UNCHANGED adc_timer]_vars

\* the coordinator has gone from Inactive to Active and back, cancelling a
\* running train on the way
C10_Witness ==
    /\ ~events_active
    /\ ~events_enabled
    /\ ~adc_hw.running
    /\ AdcAlarms(alarms) # {}
    /\ orphans # {}
    /\ \A m \in Masks : RepeatingAlarmsOf(alarms, m) = {}

\* C11: for a single train (one start-write, nothing else), with any width and
\* period, every pulse-ended is preceded by the pulse-started of its pulse,
\* train-stopped is raised at most once, and only after the pulse-ended of the
\* train's last pulse.
C11_Ordered ==
    [][(writes = 1 /\ writes' = 1 /\ flips = 0) =>
          \A m \in Masks : \A i \in 1..Len(emitted') :
              /\ emitted'[i] = <<"ended", m>> =>
                    \/ PulseAlarmsOf(alarms, m) # {}
                    \/ \E j \in 1..(i - 1) : emitted'[j] = <<"started", m>>
              /\ emitted'[i] = <<"stopped", m>> =>
                    /\ trainOn[m]
                    /\ RepeatingAlarmsOf(alarms', m) = {}
                    /\ PulseAlarmsOf(alarms', m) = {}
                    /\ \E j \in 1..(i - 1) : emitted'[j] = <<"ended", m>>
                    /\ \A j \in (i + 1)..Len(emitted') : emitted'[j] # <<"started", m>>]_vars

\* C12: the reporting-timer callback never writes the analog register field
\* and never raises the analog event itself; the field is written and the
\* event raised only by the main loop during an update tick.
C12_HandOffOnly ==
    [][/\ \A a \in alarms : AdcCallback(a) =>
              /\ app_regs'.analog_data = app_regs.analog_data
              /\ ~InSeq(<<"analog", 7>>, emitted')
       /\ (app_regs'.analog_data # app_regs.analog_data \/ InSeq(<<"analog", 7>>, emitted'))
              => UpdateAppState]_vars

\* C13: every analog event raised while the pipeline is started carries
\* values that the sample channel wrote into the buffer after the latest
\* start; none reports a cell as it was before the stop that preceded it.
C13_NoStaleSample ==
    [][\A a \in alarms :
          (AdcCallback(a) /\ events_active /\ InSeq(<<"analog", 7>>, emitted'))
              => fresh = 1..3]_vars

\* C14: when the pipeline's stop returns both transfer channels are idle and
\* conversion is stopped, and while the pipeline stays stopped neither channel
\* becomes busy and the buffer is not written.
C14_StoppedStaysIdle ==
    [][/\ (UpdateAppState /\ events_active /\ ~events_enabled) =>
              (~adc_hw'.running /\ ~adc_hw'.ctrl_busy /\ ~adc_hw'.sample_busy)
       /\ (~adc_hw.running /\ ~adc_hw'.running) =>
              /\ adc_vals' = adc_vals
              /\ adc_hw'.ctrl_busy => adc_hw.ctrl_busy
              /\ adc_hw'.sample_busy => adc_hw.sample_busy]_vars

\* C17: at most one reporting timer is armed.
C17_OneDrainTimer ==
    Cardinality(AdcAlarms(alarms)) <= 1

\* C15: no two armed periodic timers drive the same output pin: of two slots
\* whose masks share a bit at most one has an armed periodic timer.
C15_NoSharedPin ==
    \A x \in Masks : \A y \in Masks \ {x} :
        Bits(x) \cap Bits(y) # {} =>
            ~(RepeatingAlarmsOf(alarms, x) # {} /\ RepeatingAlarmsOf(alarms, y) # {})

\* C18: the start-write handler does not overwrite a slot's parameters while
\* the slot's periodic timer is armed, no callback of the slot runs between
\* the overwrite and the arming, and the new train is armed with the count
\* the host wrote.
C18_ParamsStable ==
    [][/\ \A m \in HostMasks, w \in Widths, p \in Periods, n \in CountWords :
              WriteStartCopy(m, w, p, n) => RepeatingAlarmsOf(alarms, m) = {}
       /\ \A a \in alarms :
              (PulseTrainCallback(a) \/ PulseTrainCallbackMissed(a) \/ PulseCallback(a))
                  => Armed(a.slot)
       /\ WriteStartArm =>
              pulse_train_timers[app_regs.start_pulse_train[1] % 256].pulse_count
                  = app_regs.start_pulse_train[4]]_vars

\* C19: when a stop-write or the global disable cancels the periodic timer of
\* slot m, no other slot has ever been written, and no one-shot alarm of the
\* slot is left pending, all output bits of m are low; a pending one-shot
\* alarm of the slot clears them when it fires.
C19_NoStuckHigh ==
    [][/\ \A m \in HostMasks :
              (/\ (\E x \in Masks : WriteStop(x)) \/ UpdateAppState
               /\ RepeatingAlarmsOf(alarms, m) # {}
               /\ RepeatingAlarmsOf(alarms', m) = {}
               /\ \A x \in Masks \ {m} : pulse_train_timers[x].output_mask = 0
               /\ PulseAlarmsOf(alarms', m) = {})
                  => Bits(m) \cap gpio_out' = {}
       /\ \A a \in alarms :
              (PulseCallback(a) /\ <<a.slot, a.id>> \in orphans)
                  => Bits(pulse_train_timers[a.slot].output_mask) \cap gpio_out' = {}]_vars

\* C20: while the coordinator is Inactive (flag false and processed by an
\* update tick) no slot has an armed periodic timer and no pulse-started,
\* pulse-ended or train-stopped event is raised.
C20_InactiveQuiet ==
    (~events_enabled /\ ~events_active) =>
        /\ \A m \in Masks : RepeatingAlarmsOf(alarms, m) = {}
        /\ \A m \in Masks : \A k \in {"started", "ended", "stopped"} :
               ~InSeq(<<k, m>>, emitted)

\* C16: a write of the PWM configuration register with frequency 0 takes no
\* PWM hardware action, is answered by an error reply and not by a write
\* acknowledgement, and leaves the run loop running.
C16_ZeroFrequencyRejected ==
    [][\A d \in Duties : WritePwmConfig(0, d) =>
          /\ pwm_hw' = pwm_hw
          /\ emitted' = <<(<<"write_error", 8>>)>>
          /\ pc' = "run"]_vars

====
